---- MODULE Spec2Model ----
(***************************************************************************)
(* A model of the secure file-management layer of projmcp:                 *)
(*   SecurityValidator (src/src/utils/security-validator.ts),              *)
(*   FileManager       (src/unnamed/part_004, utils/file-manager.ts),      *)
(*   RecordTool        (src/unnamed/part_007, tools/record.ts).            *)
(*                                                                         *)
(* Strings that the code inspects character by character (paths, file      *)
(* names, targets) are sequences of one-character strings.  File contents  *)
(* are sequences of tokens, each token standing for a fixed piece of text  *)
(* with its length in UTF-16 code units (see TokLen).                      *)
(***************************************************************************)
EXTENDS Integers, Sequences, FiniteSets, TLC

VARIABLES
  inp,        \* the arguments of the call under study (pure-function specifications)
  out,        \* its result
  dirExists,  \* whether the managed directory exists on disk
  fs,         \* the files on disk: absolute path -> content
  lastIndex,  \* RegExp.lastIndex of each forbidden pattern (they carry the g flag)
  now,        \* Date.now()
  pc,         \* per caller: the await the call is suspended at
  loc,        \* per caller: the call's arguments and local variables
  calls,      \* the number of calls started so far
  faults,     \* the number of filesystem failures injected so far
  committed   \* history: path -> the content of the last writeFile call that
              \* returned for it, until another writeFile call gets to the path

vars == <<inp, out, dirExists, fs, lastIndex, now, pc, loc, calls, faults, committed>>

-----------------------------------------------------------------------------
(* Bounds of the model *)

\* The number of parts a candidate path is assembled from.
MaxParts == 3

\* The number of calls of one run.
MaxCalls == 3

\* The number of filesystem failures injected in one run.
MaxFaults == 2

\* The largest value of the clock.
MaxNow == 1

\* The number of entries of a listed directory.
MaxEntries == 3

-----------------------------------------------------------------------------
(* Character strings *)

Lower == <<"a","b","c","d","e","f","g","h","i","j","k","l","m",
           "n","o","p","q","r","s","t","u","v","w","x","y","z">>
Upper == <<"A","B","C","D","E","F","G","H","I","J","K","L","M",
           "N","O","P","Q","R","S","T","U","V","W","X","Y","Z">>
Digits == <<"0","1","2","3","4","5","6","7","8","9">>

Range(s) == {s[i] : i \in DOMAIN s}

\* String.prototype.toLowerCase, on one character and on a string
LowerChar(c) ==
  IF c \in Range(Upper)
  THEN Lower[CHOOSE i \in DOMAIN Upper : Upper[i] = c]
  ELSE c

ToLowerCase(s) == [i \in DOMAIN s |-> LowerChar(s[i])]

\* String.prototype.startsWith / endsWith / includes
StartsWith(s, t) == Len(t) <= Len(s) /\ SubSeq(s, 1, Len(t)) = t

EndsWith(s, t) == Len(t) <= Len(s) /\ SubSeq(s, Len(s) - Len(t) + 1, Len(s)) = t

Includes(s, t) ==
  \E i \in 1..(Len(s) - Len(t) + 1) : SubSeq(s, i, i + Len(t) - 1) = t

Rep(c, n) == [i \in 1..n |-> c]

RECURSIVE Concat(_)
Concat(ss) == IF ss = <<>> THEN <<>> ELSE Head(ss) \o Concat(Tail(ss))

-----------------------------------------------------------------------------
(* POSIX path functions of node's 'path' module, as the validator uses them *)

\* The segments of s between '/' characters (empty segments included).
RECURSIVE Split(_)
Split(s) ==
  IF \A i \in DOMAIN s : s[i] # "/"
  THEN <<s>>
  ELSE LET k == CHOOSE i \in DOMAIN s :
                  s[i] = "/" /\ \A j \in 1..(i - 1) : s[j] # "/"
       IN  <<SubSeq(s, 1, k - 1)>> \o Split(SubSeq(s, k + 1, Len(s)))

RECURSIVE Join(_)
Join(segs) ==
  IF segs = <<>> THEN <<>>
  ELSE IF Len(segs) = 1 THEN segs[1]
  ELSE segs[1] \o <<"/">> \o Join(Tail(segs))

DotDot == <<".", ".">>

\* normalizeString: drops empty and '.' segments, resolves '..' against the
\* segment before it, keeps a leading '..' only when allowAboveRoot.
RECURSIVE NormalizeSegs(_, _, _)
NormalizeSegs(segs, res, allowAboveRoot) ==
  IF segs = <<>> THEN res
  ELSE LET s == Head(segs)
           r == IF s = <<>> \/ s = <<".">> THEN res
                ELSE IF s = DotDot
                THEN IF res # <<>> /\ res[Len(res)] # DotDot
                     THEN SubSeq(res, 1, Len(res) - 1)
                     ELSE IF allowAboveRoot THEN Append(res, s) ELSE res
                ELSE Append(res, s)
       IN  NormalizeSegs(Tail(segs), r, allowAboveRoot)

IsAbsolute(p) == Len(p) > 0 /\ p[1] = "/"

\* path.normalize
Normalize(p) ==
  IF p = <<>> THEN <<".">>
  ELSE LET abs   == IsAbsolute(p)
           trail == p[Len(p)] = "/"
           body  == Join(NormalizeSegs(Split(p), <<>>, ~abs))
           b1    == IF body = <<>> /\ ~abs THEN <<".">> ELSE body
           b2    == IF b1 # <<>> /\ trail THEN b1 \o <<"/">> ELSE b1
       IN  IF abs THEN <<"/">> \o b2 ELSE b2

\* path.resolve(base, p) for an absolute base
Resolve(base, p) ==
  LET full == IF IsAbsolute(p) THEN p ELSE base \o <<"/">> \o p
  IN  <<"/">> \o Join(NormalizeSegs(Split(full), <<>>, FALSE))

\* path.basename of a resolved (normalized, absolute) path
Basename(p) == LET segs == Split(p) IN segs[Len(segs)]

-----------------------------------------------------------------------------
(* SecurityValidator *)

maxFilenameLength == 200

allowedFileExtensions == { <<".", "m", "d">>,
                           <<".", "j", "s", "o", "n">>,
                           <<".", "t", "x", "t">> }

\* FileManager's constructor: resolve(basePath, 'project_plan') with basePath /w
projectPlanDir ==
  <<"/", "w", "/", "p", "r", "o", "j", "e", "c", "t", "_", "p", "l", "a", "n">>

\* the character class [a-zA-Z0-9._-]
SafeFilenameChars ==
  Range(Lower) \cup Range(Upper) \cup Range(Digits) \cup {".", "_", "-"}

Fail(msg) == [ok |-> FALSE, err |-> msg, path |-> <<>>]
Pass(p)   == [ok |-> TRUE, err |-> "", path |-> p]

\* a limit that is off by one: a path of exactly 200 characters is refused
ExceedsMaxLength_OffByOne(filePath) == Len(filePath) >= maxFilenameLength

\* line 50: the length limit
ExceedsMaxLength(filePath) == Len(filePath) > maxFilenameLength

\* line 59: resolvedPath.startsWith(resolve(this._trustedBasePath))
StaysWithinBase(resolvedPath) ==
  StartsWith(resolvedPath, Resolve(projectPlanDir, <<>>))

\* the '..' test left out
HasDangerousPattern_TildeOnly(normalizedPath) == Includes(normalizedPath, <<"~">>)

\* line 64: normalizedPath.includes('..') || normalizedPath.includes('~')
HasDangerousPattern(normalizedPath) ==
  Includes(normalizedPath, DotDot) \/ Includes(normalizedPath, <<"~">>)

\* line 70: /^[a-zA-Z0-9._-]+$/.test(filename)
IsSafeFilename(filename) ==
  filename # <<>> /\ Range(filename) \subseteq SafeFilenameChars

\* lines 75-77: some allowed extension ends the lower-cased filename
HasValidExtension(filename) ==
  \E ext \in allowedFileExtensions :
     EndsWith(ToLowerCase(filename), ToLowerCase(ext))

validateFilePath(filePath) ==
  IF filePath = <<>> THEN Fail("File path must be a non-empty string")
  ELSE IF ExceedsMaxLength(filePath)
  THEN Fail("File path exceeds maximum length")
  ELSE LET normalizedPath == Normalize(filePath)
           resolvedPath   == Resolve(projectPlanDir, normalizedPath)
           filename       == Basename(resolvedPath)
       IN  IF ~StaysWithinBase(resolvedPath)
           THEN Fail("Path traversal detected")
           ELSE IF HasDangerousPattern(normalizedPath)
           THEN Fail("Dangerous path patterns detected")
           ELSE IF ~IsSafeFilename(filename)
           THEN Fail("Invalid filename")
           ELSE IF ~HasValidExtension(filename)
           THEN Fail("File extension not allowed")
           ELSE Pass(resolvedPath)

-----------------------------------------------------------------------------
(* File contents.  A content is a sequence of tokens:                      *)
(*   text    one harmless character                                        *)
(*   script  <script>alert(1)</script>       jsuri   javascript:           *)
(*   iframe  <iframe>                        onevt   onclick=              *)
(*   eval    eval(                           nul     a null byte           *)
(*   big     a run of 524288 harmless characters                           *)
(*   wide    a run of 400000 three-byte characters                         *)
(*   lone    an unpaired surrogate, repl  U+FFFD                           *)
(*   tplDoc, tplCode, tplOpinion   the fixed text of a record template     *)
(*   sep     "\n\n## User Content\n\n"                                     *)

\* String.prototype.length of a token, in UTF-16 code units
TokLen(tok) ==
  CASE tok = "script" -> 25
    [] tok = "jsuri"  -> 11
    [] tok = "iframe" -> 8
    [] tok = "onevt"  -> 8
    [] tok = "eval"   -> 5
    [] tok = "big"    -> 524288
    [] tok = "wide"   -> 400000
    [] tok = "tplDoc"     -> 862
    [] tok = "tplCode"    -> 1149
    [] tok = "tplOpinion" -> 816
    [] tok = "tplPlan"    -> 847
    [] tok = "tplCurrent" -> 635
    [] tok = "tplSprint"  -> 1151
    [] tok = "sep"    -> 19
    [] OTHER          -> 1

\* Buffer.byteLength(tok, 'utf8')
TokBytes(tok) ==
  CASE tok = "wide" -> 1200000
    [] tok = "lone" -> 3
    [] tok = "repl" -> 3
    [] tok = "tplPlan"    -> 1039
    [] tok = "tplCurrent" -> 769
    [] tok = "tplSprint"  -> 1233
    [] OTHER        -> TokLen(tok)

RECURSIVE StrLength(_)
StrLength(content) ==
  IF content = <<>> THEN 0 ELSE TokLen(Head(content)) + StrLength(Tail(content))

RECURSIVE ByteLength(_)
ByteLength(content) ==
  IF content = <<>> THEN 0 ELSE TokBytes(Head(content)) + ByteLength(Tail(content))

\* the index at which token i of content starts
Offset(content, i) == StrLength(SubSeq(content, 1, i - 1))

\* What fs.writeFile(path, content, 'utf-8') stores and fs.readFile(path,
\* 'utf-8') gives back: an unpaired surrogate is encoded as U+FFFD.
Utf8RoundTrip(content) ==
  [i \in DOMAIN content |-> IF content[i] = "lone" THEN "repl" ELSE content[i]]

maxFileSize == 1048576

maxContentLength == 524288

\* DEFAULT_SECURITY_CONFIG.forbiddenPatterns, by the token each one matches
forbiddenPatterns == <<"script", "jsuri", "iframe", "onevt", "eval">>

\* RegExp.prototype.test of pattern k, which carries the g flag: the search
\* starts at lastIndex; a match leaves lastIndex at its end, a failure at 0.
RegExpTest(k, content, li) ==
  LET hits == { i \in DOMAIN content :
                  content[i] = forbiddenPatterns[k] /\ Offset(content, i) >= li }
  IN  IF hits = {}
      THEN [matched |-> FALSE, lastIndex |-> 0]
      ELSE LET i == CHOOSE h \in hits : \A g \in hits : h <= g
           IN  [matched |-> TRUE,
                lastIndex |-> Offset(content, i) + TokLen(content[i])]

\* the loop over the forbidden patterns, from pattern k on: stops at the
\* first pattern that matches
RECURSIVE TestPatterns(_, _, _)
TestPatterns(k, content, li) ==
  IF k > Len(forbiddenPatterns)
  THEN [matched |-> FALSE, lastIndex |-> li]
  ELSE LET r   == RegExpTest(k, content, li[k])
           li2 == [li EXCEPT ![k] = r.lastIndex]
       IN  IF r.matched
           THEN [matched |-> TRUE, lastIndex |-> li2]
           ELSE TestPatterns(k + 1, content, li2)

\* validateFileContent with the patterns' lastIndex values li; the result
\* carries the values the call leaves behind
validateFileContent(content, li) ==
  IF StrLength(content) > maxContentLength
  THEN [ok |-> FALSE, err |-> "Content exceeds maximum length", lastIndex |-> li]
  ELSE LET t == TestPatterns(1, content, li)
       IN  IF t.matched
           THEN [ok |-> FALSE, err |-> "Potentially malicious content detected",
                 lastIndex |-> t.lastIndex]
           ELSE IF \E i \in DOMAIN content : content[i] = "nul"
           THEN [ok |-> FALSE, err |-> "Binary content not allowed",
                 lastIndex |-> t.lastIndex]
           ELSE [ok |-> TRUE, err |-> "", lastIndex |-> t.lastIndex]

validateFileSize(sizeInBytes) ==
  IF sizeInBytes < 0 THEN [ok |-> FALSE, err |-> "File size must be a non-negative integer"]
  ELSE IF sizeInBytes > maxFileSize
  THEN [ok |-> FALSE, err |-> "File size exceeds maximum allowed"]
  ELSE [ok |-> TRUE, err |-> ""]

\* the content is checked before the path
validateFileOperation_ContentFirst(filePath, content, li) ==
  LET vc == validateFileContent(content, li)
  IN  IF ~vc.ok
      THEN [ok |-> FALSE, err |-> vc.err, path |-> <<>>, lastIndex |-> vc.lastIndex]
      ELSE LET vp == validateFilePath(filePath)
           IN  IF ~vp.ok
               THEN [ok |-> FALSE, err |-> vp.err, path |-> <<>>,
                     lastIndex |-> vc.lastIndex]
               ELSE LET vs == validateFileSize(ByteLength(content))
                    IN  IF ~vs.ok
                        THEN [ok |-> FALSE, err |-> vs.err, path |-> <<>>,
                              lastIndex |-> vc.lastIndex]
                        ELSE [ok |-> TRUE, err |-> "", path |-> vp.path,
                              lastIndex |-> vc.lastIndex]

\* validateFileOperation: path, then content, then size
validateFileOperation(filePath, content, li) ==
  LET vp == validateFilePath(filePath)
  IN  IF ~vp.ok
      THEN [ok |-> FALSE, err |-> vp.err, path |-> <<>>, lastIndex |-> li]
      ELSE LET vc == validateFileContent(content, li)
           IN  IF ~vc.ok
               THEN [ok |-> FALSE, err |-> vc.err, path |-> <<>>,
                     lastIndex |-> vc.lastIndex]
               ELSE LET vs == validateFileSize(ByteLength(content))
                    IN  IF ~vs.ok
                        THEN [ok |-> FALSE, err |-> vs.err, path |-> <<>>,
                              lastIndex |-> vc.lastIndex]
                        ELSE [ok |-> TRUE, err |-> "", path |-> vp.path,
                              lastIndex |-> vc.lastIndex]

-----------------------------------------------------------------------------
(* Candidate paths: every concatenation of at most MaxParts parts *)

LongPart == Rep("a", 196)

PathParts ==
  { <<"/">>, <<".">>, <<".", ".", "/">>, <<"~", "/">>, projectPlanDir,
    <<"_", "x", "/">>, <<"s", "u", "b", "/">>, <<"a", ".", "m", "d">>,
    <<"b", ".", "e", "x", "e">>, <<"c", " ", "d", ".", "m", "d">>,
    <<"B", ".", "M", "D">>, LongPart }

PathInputs ==
  { Concat(ps) : ps \in UNION { [1..n -> PathParts] : n \in 0..MaxParts } }

-----------------------------------------------------------------------------
(* Idle values of the variables a specification does not use *)

Callers == {1, 2}

NoPath == <<>>

NoCall ==
  [op |-> "none", fileName |-> <<>>, content |-> <<>>, validatedPath |-> NoPath,
   backupPath |-> NoPath, writeError |-> "", err |-> "", ret |-> <<>>,
   orig |-> <<"absent">>, steps |-> {},
   tool |-> "", type |-> "", target |-> <<>>, userContent |-> <<>>, before |-> {},
   idx |-> 0, follows |-> "", snapshot |-> <<>>, listing |-> <<>>,
   latest |-> <<>>, dirBefore |-> FALSE, filesBefore |-> <<>>, seq |-> 0,
   scanned |-> {}]

IdleCallers ==
  /\ pc = [p \in Callers |-> "idle"]
  /\ loc = [p \in Callers |-> NoCall]
  /\ calls = 0
  /\ faults = 0
  /\ committed = <<>>

IdleDisk ==
  /\ dirExists = FALSE
  /\ fs = <<>>
  /\ lastIndex = [k \in DOMAIN forbiddenPatterns |-> 0]
  /\ now = 0
  /\ IdleCallers

-----------------------------------------------------------------------------
(* SpecPath: validateFilePath applied to every candidate path *)

InitPath ==
  /\ inp \in { [op |-> "validateFilePath", filePath |-> p] : p \in PathInputs }
  /\ out = [op |-> "none"]
  /\ IdleDisk

CallValidateFilePath ==
  /\ inp.op = "validateFilePath"
  /\ out.op = "none"
  /\ out' = [op |-> "validateFilePath"] @@ validateFilePath(inp.filePath)
  /\ UNCHANGED <<inp, dirExists, fs, lastIndex, now, pc, loc, calls, faults, committed>>

NextPath == CallValidateFilePath

SpecPath == InitPath /\ [][NextPath]_vars

-----------------------------------------------------------------------------
(* The disk *)

Exists(path) == path \in DOMAIN fs

Put(f, path, content) ==
  [q \in DOMAIN f \cup {path} |-> IF q = path THEN content ELSE f[q]]

Remove(f, path) == [q \in DOMAIN f \ {path} |-> f[q]]

\* what a failed write or copy may leave at its destination: nothing written
\* at all is the other outcome
ProperPrefixes(content) == { SubSeq(content, 1, n) : n \in 0..(Len(content) - 1) }

\* stands for the content of a file that does not exist
Absent == <<"absent">>

ContentOf(path) == IF Exists(path) THEN fs[path] ELSE Absent

\* join(projectPlanDir, name)
InDir(name) == projectPlanDir \o <<"/">> \o name

\* `${validatedPath}.backup.${Date.now()}`
BackupPathOf(validatedPath, t) ==
  validatedPath \o <<".", "b", "a", "c", "k", "u", "p", ".">> \o <<Digits[t + 1]>>

\* a filesystem call may fail while the run's failure budget lasts
MayFail == faults < MaxFaults

-----------------------------------------------------------------------------
(* Calls.  A caller is idle, suspended at an await of its call, or done    *)
(* with the call's outcome in loc (ret on success, err on a throw).        *)

CanStart(p) == pc[p] \in {"idle", "done"} /\ calls < MaxCalls

\* no call other than p's is suspended at an await
NoOtherCallInFlight(p) == \A q \in Callers \ {p} : pc[q] \in {"idle", "done"}

\* the call of writeFile or readFile returns or throws: the tool that made
\* it goes on (the loop of init_project_plan) or the request is done
Finish(p, l) ==
  /\ pc' = [pc EXCEPT ![p] = IF l.tool = "init" /\ l.err = "" /\ l.idx < 3
                             THEN "init_next" ELSE "done"]
  /\ loc' = [loc EXCEPT ![p] = l]

Goto(p, label, l) ==
  /\ pc' = [pc EXCEPT ![p] = label]
  /\ loc' = [loc EXCEPT ![p] = l]

\* the clock advances between any two steps
Tick ==
  /\ now < MaxNow
  /\ now' = now + 1
  /\ UNCHANGED <<inp, out, dirExists, fs, lastIndex, pc, loc, calls, faults, committed>>

\* SecurityValidator.validateFileContent called on its own
ValidateContent(p, content) ==
  /\ CanStart(p)
  /\ LET v == validateFileContent(content, lastIndex)
     IN  /\ lastIndex' = v.lastIndex
         /\ Finish(p, [NoCall EXCEPT !.op = "validateFileContent",
                                     !.content = content, !.err = v.err])
  /\ calls' = calls + 1
  /\ UNCHANGED <<inp, out, dirExists, fs, now, faults, committed>>

(* FileManager.readFile *)

\* lines 151-160: validateFilePath, then the await of fs.access
ReadFileStart(p, filePath) ==
  /\ CanStart(p)
  /\ LET v == validateFilePath(filePath)
         l == [NoCall EXCEPT !.op = "readFile", !.fileName = filePath,
                             !.validatedPath = v.path,
                             !.latest = IF NoOtherCallInFlight(p) THEN committed
                                                                  ELSE <<>>,
                             !.dirBefore = dirExists, !.filesBefore = fs]
     IN  IF v.ok THEN Goto(p, "rd_access", l)
                 ELSE Finish(p, [l EXCEPT !.err = v.err])
  /\ calls' = calls + 1
  /\ UNCHANGED <<inp, out, dirExists, fs, lastIndex, now, faults, committed>>

\* lines 251-257: validateFileAccessibility
ReadFileAccess(p) ==
  /\ pc[p] = "rd_access"
  /\ IF Exists(loc[p].validatedPath)
     THEN Goto(p, "rd_read", loc[p])
     ELSE Finish(p, [loc[p] EXCEPT !.err = "File not accessible"])
  /\ UNCHANGED <<inp, out, dirExists, fs, lastIndex, now, calls, faults, committed>>

\* lines 162-173: fs.readFile, then validateFileContent on what was read
ReadFileRead(p) ==
  /\ pc[p] = "rd_read"
  /\ Exists(loc[p].validatedPath)
  /\ LET content == fs[loc[p].validatedPath]
         v == validateFileContent(content, lastIndex)
     IN  /\ lastIndex' = v.lastIndex
         /\ IF v.ok THEN Finish(p, [loc[p] EXCEPT !.ret = content])
                    ELSE Finish(p, [loc[p] EXCEPT !.err = v.err])
  /\ UNCHANGED <<inp, out, dirExists, fs, now, calls, faults, committed>>

(* FileManager.writeFile *)

\* lines 184-192: up to the await of ensureProjectPlanDir
WriteFileStart(p, fileName, content) ==
  /\ CanStart(p)
  /\ Goto(p, "wr_ensure", [NoCall EXCEPT !.op = "writeFile",
                                        !.fileName = fileName,
                                        !.content = content,
                                        !.dirBefore = dirExists,
                                        !.filesBefore = fs])
  /\ calls' = calls + 1
  /\ UNCHANGED <<inp, out, dirExists, fs, lastIndex, now, faults, committed>>

\* lines 192-198: ensureProjectPlanDir (lines 37-43), then
\* validateFileOperation, up to the await of fileExists
WriteFileEnsure(p) ==
  /\ pc[p] = "wr_ensure"
  /\ dirExists' = TRUE
  /\ LET v == validateFileOperation(loc[p].fileName, loc[p].content, lastIndex)
     IN  /\ lastIndex' = v.lastIndex
         /\ IF v.ok
            THEN /\ Goto(p, "wr_exists", [loc[p] EXCEPT !.validatedPath = v.path,
                                                       !.orig = ContentOf(v.path)])
                 /\ committed' = Remove(committed, v.path)
            ELSE /\ Finish(p, [loc[p] EXCEPT !.err = v.err])
                 /\ committed' = committed
  /\ UNCHANGED <<inp, out, fs, now, calls, faults>>

\* lines 198-203: fileExists(validatedPath) and the backup's name
WriteFileExists(p) ==
  /\ pc[p] = "wr_exists"
  /\ IF Exists(loc[p].validatedPath)
     THEN Goto(p, "wr_copy",
               [loc[p] EXCEPT !.backupPath = BackupPathOf(loc[p].validatedPath, now)])
     ELSE Goto(p, "wr_write", loc[p])
  /\ UNCHANGED <<inp, out, dirExists, fs, lastIndex, now, calls, faults, committed>>

\* line 203: fs.copyFile(validatedPath, backupPath) succeeds
WriteFileCopy(p) ==
  /\ pc[p] = "wr_copy"
  /\ Exists(loc[p].validatedPath)
  /\ fs' = Put(fs, loc[p].backupPath, fs[loc[p].validatedPath])
  /\ Goto(p, "wr_write", [loc[p] EXCEPT !.steps = @ \cup {"copy ok"}])
  /\ UNCHANGED <<inp, out, dirExists, lastIndex, now, calls, faults, committed>>

\* line 203: fs.copyFile fails (the error leaves writeFile through the outer
\* catch, lines 240-243); the destination is absent or partly written
WriteFileCopyFails(p) ==
  /\ pc[p] = "wr_copy"
  /\ Exists(loc[p].validatedPath)
  /\ MayFail
  /\ faults' = faults + 1
  /\ \/ fs' = fs
     \/ \E part \in ProperPrefixes(fs[loc[p].validatedPath]) :
          fs' = Put(fs, loc[p].backupPath, part)
  /\ Finish(p, [loc[p] EXCEPT !.err = "copyFile failed",
                              !.steps = @ \cup {"copy failed"}])
  /\ UNCHANGED <<inp, out, dirExists, lastIndex, now, calls, committed>>

\* the content is appended to what the file holds
WriteFileWrite_Appends(p) ==
  /\ pc[p] = "wr_write"
  /\ fs' = Put(fs, loc[p].validatedPath,
               (IF Exists(loc[p].validatedPath) THEN fs[loc[p].validatedPath]
                                                ELSE <<>>)
               \o Utf8RoundTrip(loc[p].content))
  /\ IF loc[p].backupPath # NoPath
     THEN /\ Goto(p, "wr_unlink", [loc[p] EXCEPT !.steps = @ \cup {"write ok"}])
          /\ committed' = committed
     ELSE /\ Finish(p, [loc[p] EXCEPT !.ret = loc[p].validatedPath,
                                      !.steps = @ \cup {"write ok"}])
          /\ committed' = Put(committed, loc[p].validatedPath, loc[p].content)
  /\ UNCHANGED <<inp, out, dirExists, lastIndex, now, calls, faults>>

\* line 208: fs.writeFile(validatedPath, content, 'utf-8') succeeds; without
\* a backup the call returns (line 222)
WriteFileWrite(p) ==
  /\ pc[p] = "wr_write"
  /\ fs' = Put(fs, loc[p].validatedPath, Utf8RoundTrip(loc[p].content))
  /\ IF loc[p].backupPath # NoPath
     THEN /\ Goto(p, "wr_unlink", [loc[p] EXCEPT !.steps = @ \cup {"write ok"}])
          /\ committed' = committed
     ELSE /\ Finish(p, [loc[p] EXCEPT !.ret = loc[p].validatedPath,
                                      !.steps = @ \cup {"write ok"}])
          /\ committed' = Put(committed, loc[p].validatedPath, loc[p].content)
  /\ UNCHANGED <<inp, out, dirExists, lastIndex, now, calls, faults>>

\* lines 224-237: the error thrown to the caller when the write has failed
\* and there is nothing to restore from
ThrowWriteError(p, l) == Finish(p, [l EXCEPT !.err = l.writeError])

\* line 208: fs.writeFile fails, before it opened the file or after it
\* truncated it; with no backup the catch block rethrows at once
WriteFileWriteFails(p) ==
  /\ pc[p] = "wr_write"
  /\ MayFail
  /\ faults' = faults + 1
  /\ \/ fs' = fs
     \/ \E part \in ProperPrefixes(Utf8RoundTrip(loc[p].content)) :
          fs' = Put(fs, loc[p].validatedPath, part)
  /\ LET l == [loc[p] EXCEPT !.writeError = "writeFile failed",
                             !.steps = @ \cup {"write failed"}]
     IN  IF l.backupPath # NoPath THEN Goto(p, "wr_probe", l)
                                  ELSE ThrowWriteError(p, l)
  /\ UNCHANGED <<inp, out, dirExists, lastIndex, now, calls, committed>>

\* the call returns without removing its backup
WriteFileUnlink_KeepsBackup(p) ==
  /\ pc[p] = "wr_unlink"
  /\ Finish(p, [loc[p] EXCEPT !.ret = loc[p].validatedPath,
                              !.steps = @ \cup {"unlink ok"}])
  /\ committed' = Put(committed, loc[p].validatedPath, loc[p].content)
  /\ UNCHANGED <<inp, out, dirExists, fs, lastIndex, now, calls, faults>>

\* line 212: fs.unlink(backupPath) succeeds and the call returns
WriteFileUnlink(p) ==
  /\ pc[p] = "wr_unlink"
  /\ Exists(loc[p].backupPath)
  /\ fs' = Remove(fs, loc[p].backupPath)
  /\ Finish(p, [loc[p] EXCEPT !.ret = loc[p].validatedPath,
                              !.steps = @ \cup {"unlink ok"}])
  /\ committed' = Put(committed, loc[p].validatedPath, loc[p].content)
  /\ UNCHANGED <<inp, out, dirExists, lastIndex, now, calls, faults>>

\* line 212: fs.unlink fails inside the try block, so its error is the
\* writeError of the catch block; it always fails when the backup is no
\* longer there
WriteFileUnlinkFails(p) ==
  /\ pc[p] = "wr_unlink"
  /\ \/ MayFail /\ faults' = faults + 1
     \/ ~Exists(loc[p].backupPath) /\ faults' = faults
  /\ Goto(p, "wr_probe", [loc[p] EXCEPT !.writeError = "unlink failed",
                                        !.steps = @ \cup {"unlink failed"}])
  /\ UNCHANGED <<inp, out, dirExists, fs, lastIndex, now, calls, committed>>

\* line 226: fileExists(backupPath)
WriteFileProbe(p) ==
  /\ pc[p] = "wr_probe"
  /\ IF Exists(loc[p].backupPath)
     THEN Goto(p, "wr_rename", loc[p])
     ELSE ThrowWriteError(p, loc[p])
  /\ UNCHANGED <<inp, out, dirExists, fs, lastIndex, now, calls, faults, committed>>

\* the backup is removed instead of being renamed into place
WriteFileRestore_DropsBackup(p) ==
  /\ pc[p] = "wr_rename"
  /\ Exists(loc[p].backupPath)
  /\ fs' = Remove(fs, loc[p].backupPath)
  /\ ThrowWriteError(p, [loc[p] EXCEPT !.steps = @ \cup {"rename ok"}])
  /\ UNCHANGED <<inp, out, dirExists, lastIndex, now, calls, faults, committed>>

\* lines 228-229, 237: fs.rename(backupPath, validatedPath) succeeds
WriteFileRestore(p) ==
  /\ pc[p] = "wr_rename"
  /\ Exists(loc[p].backupPath)
  /\ fs' = Remove(Put(fs, loc[p].validatedPath, fs[loc[p].backupPath]),
                  loc[p].backupPath)
  /\ ThrowWriteError(p, [loc[p] EXCEPT !.steps = @ \cup {"rename ok"}])
  /\ UNCHANGED <<inp, out, dirExists, lastIndex, now, calls, faults, committed>>

\* the restore's error is thrown in place of the write's
WriteFileRestoreFails_Masks(p) ==
  /\ pc[p] = "wr_rename"
  /\ MayFail
  /\ faults' = faults + 1
  /\ Finish(p, [loc[p] EXCEPT !.err = "rename failed",
                              !.steps = @ \cup {"rename failed"}])
  /\ UNCHANGED <<inp, out, dirExists, fs, lastIndex, now, calls, committed>>

\* lines 230-237: fs.rename fails, as it always does when the backup is no
\* longer there; the failure is logged
WriteFileRestoreFails(p) ==
  /\ pc[p] = "wr_rename"
  /\ \/ MayFail /\ faults' = faults + 1
     \/ ~Exists(loc[p].backupPath) /\ faults' = faults
  /\ ThrowWriteError(p, [loc[p] EXCEPT !.steps = @ \cup {"rename failed"}])
  /\ UNCHANGED <<inp, out, dirExists, fs, lastIndex, now, calls, committed>>

-----------------------------------------------------------------------------
(* File names: FILE_PATTERNS, categorizeFile, sanitizeFileName,            *)
(* generateFileName                                                        *)

IsDigit(c) == c \in Range(Digits)

\* parseInt(c, 10) of one digit
DigitValue(c) == (CHOOSE i \in DOMAIN Digits : Digits[i] = c) - 1

Md == <<".", "m", "d">>

\* s is \d{n} followed by \..+\.md and the end of the string
MatchesNumberedTail(s, n) ==
  /\ Len(s) >= n + 5
  /\ \A i \in 1..n : IsDigit(s[i])
  /\ s[n + 1] = "."
  /\ EndsWith(s, Md)

PrefixOf(type) ==
  CASE type = "doc"  -> <<"D", "O", "C", "R", "E", "F", "_">>
    [] type = "code" -> <<"C", "O", "D", "E", "R", "E", "F", "_">>
    [] OTHER         -> <<"O", "P", "I", "N", "I", "O", "N", "S", "_">>

After(s, prefix) == SubSeq(s, Len(prefix) + 1, Len(s))

\* FILE_PATTERNS.sprint: /^M\d{2}_S\d{2}\..+\.md$/
MatchesSprint(name) ==
  /\ Len(name) >= 7
  /\ name[1] = "M" /\ IsDigit(name[2]) /\ IsDigit(name[3])
  /\ name[4] = "_" /\ name[5] = "S"
  /\ MatchesNumberedTail(After(name, SubSeq(name, 1, 5)), 2)

\* FILE_PATTERNS.doc: /^DOCREF_\d{3}\..+\.md$/
MatchesDoc(name) ==
  StartsWith(name, PrefixOf("doc"))
    /\ MatchesNumberedTail(After(name, PrefixOf("doc")), 3)

\* FILE_PATTERNS.code: /^CODEREF_.+\.md$/
MatchesCode(name) ==
  /\ StartsWith(name, PrefixOf("code"))
  /\ EndsWith(name, Md)
  /\ Len(name) >= Len(PrefixOf("code")) + 1 + Len(Md)

\* FILE_PATTERNS.opinion: /^OPINIONS_\d{3}\..+\.md$/
MatchesOpinion(name) ==
  StartsWith(name, PrefixOf("opinion"))
    /\ MatchesNumberedTail(After(name, PrefixOf("opinion")), 3)

\* the opinion pattern is left out, so that opinions fall back to doc
categorizeFile_NoOpinion(fileName) ==
  IF MatchesSprint(fileName) THEN "sprint"
  ELSE IF MatchesDoc(fileName) THEN "doc"
  ELSE IF MatchesCode(fileName) THEN "code"
  ELSE "doc"

categorizeFile(fileName) ==
  IF MatchesSprint(fileName) THEN "sprint"
  ELSE IF MatchesDoc(fileName) THEN "doc"
  ELSE IF MatchesCode(fileName) THEN "code"
  ELSE IF MatchesOpinion(fileName) THEN "opinion"
  ELSE "doc"

\* the whitespace characters (\s) among the characters of the model
Whitespace == {" "}

\* the positions of s, in order
Positions(s) == [i \in 1..Len(s) |-> i]

\* .replace(/[^a-z0-9\s-]/g, '')
StripUnsafe(s) ==
  SelectSeq(s, LAMBDA c : c \in Range(Lower) \cup Range(Digits) \cup Whitespace \cup {"-"})

\* .replace(/\s+/g, '_'): one underscore for each run of whitespace
UnderscoreWhitespace(s) ==
  LET kept == SelectSeq(Positions(s),
                        LAMBDA i : ~(s[i] \in Whitespace /\ i < Len(s)
                                       /\ s[i + 1] \in Whitespace))
  IN  [k \in 1..Len(kept) |-> IF s[kept[k]] \in Whitespace THEN "_" ELSE s[kept[k]]]

\* .replace(/_+/g, '_')
CollapseUnderscores(s) ==
  LET kept == SelectSeq(Positions(s),
                        LAMBDA i : ~(s[i] = "_" /\ i < Len(s) /\ s[i + 1] = "_"))
  IN  [k \in 1..Len(kept) |-> s[kept[k]]]

\* .replace(/^_|_$/g, '')
TrimUnderscore(s) ==
  LET a == IF s # <<>> /\ s[1] = "_" THEN Tail(s) ELSE s
  IN  IF a # <<>> /\ a[Len(a)] = "_" THEN SubSeq(a, 1, Len(a) - 1) ELSE a

sanitizeFileName(input) ==
  TrimUnderscore(CollapseUnderscores(UnderscoreWhitespace(StripUnsafe(ToLowerCase(input)))))

\* Number.prototype.toString of n >= 0
RECURSIVE NumberToString(_)
NumberToString(n) ==
  IF n < 10 THEN <<Digits[n + 1]>>
  ELSE NumberToString(n \div 10) \o <<Digits[(n % 10) + 1]>>

\* String.prototype.padStart(3, '0')
PadStart3(s) == IF Len(s) >= 3 THEN s ELSE Rep("0", 3 - Len(s)) \o s

\* the entries of the managed directory, as fs.readdir gives them
DirEntries(f) ==
  { After(path, projectPlanDir \o <<"/">>) :
      path \in { q \in DOMAIN f :
                   /\ StartsWith(q, projectPlanDir \o <<"/">>)
                   /\ Len(Split(After(q, projectPlanDir \o <<"/">>))) = 1 } }

\* the names listFiles(type) returns for a directory with these entries
\* (lines 78-85), every entry being readable
ListedNames(entries, type) ==
  { n \in entries : EndsWith(n, Md) /\ (type = "all" \/ categorizeFile(n) = type) }

\* lines 272-275: the numbers of the names that match ^prefix(\d{3})
ExistingNumbers(names, prefix) ==
  { 100 * DigitValue(After(n, prefix)[1]) + 10 * DigitValue(After(n, prefix)[2])
      + DigitValue(After(n, prefix)[3]) :
    n \in { m \in names : /\ StartsWith(m, prefix)
                          /\ Len(m) >= Len(prefix) + 3
                          /\ \A i \in 1..3 : IsDigit(After(m, prefix)[i]) } }

Max(S) == CHOOSE x \in S : \A y \in S : y <= x

Min(S) == CHOOSE x \in S : \A y \in S : x <= y

\* one more than the number of files, instead of one more than the largest
NextNumber_CountPlusOne(existingNumbers) == Cardinality(existingNumbers) + 1

\* lines 265, 277-279
NextNumber(existingNumbers) ==
  IF existingNumbers # {} THEN Max(existingNumbers) + 1 ELSE 1

\* code files are numbered like the others
generateFileName_AllNumbered(type, target, entries) ==
  LET files  == ListedNames(entries, type)
      prefix == PrefixOf(type)
  IN  prefix \o PadStart3(NumberToString(NextNumber(ExistingNumbers(files, prefix))))
        \o <<".">> \o sanitizeFileName(target) \o Md

\* generateFileName on a directory with these entries
generateFileName(type, target, entries) ==
  LET files  == ListedNames(entries, type)
      prefix == PrefixOf(type)
  IN  IF type = "doc" \/ type = "opinion"
      THEN prefix \o PadStart3(NumberToString(NextNumber(ExistingNumbers(files, prefix))))
             \o <<".">> \o sanitizeFileName(target) \o Md
      ELSE prefix \o sanitizeFileName(target) \o Md

-----------------------------------------------------------------------------
(* RecordTool.execute *)

\* the text of the record templates with an empty target: lengths of the
\* template literals of generateDocrefTemplateInternal,
\* generateCoderefTemplateInternal and generateOpinionsTemplateInternal with
\* their dates filled in
TemplateToken(type) ==
  CASE type = "doc"  -> "tplDoc"
    [] type = "code" -> "tplCode"
    [] OTHER         -> "tplOpinion"

\* generateTemplate: the template embeds the target twice
generateTemplate(type, target) ==
  <<TemplateToken(type)>> \o Rep("text", 2 * Len(target))

\* line 39: `${template}\n\n## User Content\n\n${content}`
FullContent(type, target, content) ==
  generateTemplate(type, target) \o <<"sep">> \o content

\* lines 21-27: up to the first await of generateFileName (listFiles)
RecordStart(p, type, target, content) ==
  /\ CanStart(p)
  /\ Goto(p, "rec_scan", [NoCall EXCEPT !.op = "record", !.tool = "record",
                                       !.type = type, !.target = target,
                                       !.userContent = content,
                                       !.before = DOMAIN fs,
                                       !.seq = calls + 1])
  /\ calls' = calls + 1
  /\ UNCHANGED <<inp, out, dirExists, fs, lastIndex, now, faults, committed>>

\* lines 27-41: generateFileName scans the directory (creating it when it is
\* absent), the content is assembled, and writeFile is called
RecordScan(p) ==
  /\ pc[p] = "rec_scan"
  /\ dirExists' = TRUE
  /\ LET l == loc[p]
         fileName == generateFileName(l.type, l.target, DirEntries(fs))
     IN  Goto(p, "wr_ensure",
              [l EXCEPT !.op = "writeFile", !.fileName = fileName,
                        !.content = FullContent(l.type, l.target, l.userContent),
                        !.scanned = DirEntries(fs)])
  /\ UNCHANGED <<inp, out, fs, lastIndex, now, calls, faults, committed>>

-----------------------------------------------------------------------------
(* Spec: one caller issuing validateFileContent, readFile and writeFile    *)
(* calls one after the other, on a directory that is absent, empty or      *)
(* holds a document                                                        *)

\* the contents passed to the calls: harmless text, text with one or two
\* forbidden patterns at different offsets, and an unpaired surrogate
Contents ==
  { <<"text">>, <<"text", "text">>, <<"script">>, <<"text", "script">>,
    <<"eval">>, <<"script", "eval">>, <<"lone">> }

FileA == <<"a", ".", "m", "d">>

FileNames == { FileA, <<"b", ".", "e", "x", "e">> }

InitialDisks ==
  { [dir |-> FALSE, files |-> <<>>],
    [dir |-> TRUE, files |-> <<>>],
    [dir |-> TRUE, files |-> Put(<<>>, InDir(FileA), <<"text">>)] }

Init ==
  /\ inp = [op |-> "none"]
  /\ out = [op |-> "none"]
  /\ \E d \in InitialDisks : dirExists = d.dir /\ fs = d.files
  /\ lastIndex = [k \in DOMAIN forbiddenPatterns |-> 0]
  /\ now = 0
  /\ IdleCallers

WriteFileStep(p) ==
  \/ WriteFileEnsure(p)
  \/ WriteFileExists(p)
  \/ WriteFileCopy(p)
  \/ WriteFileCopyFails(p)
  \/ WriteFileWrite(p)
  \/ WriteFileWriteFails(p)
  \/ WriteFileUnlink(p)
  \/ WriteFileUnlinkFails(p)
  \/ WriteFileProbe(p)
  \/ WriteFileRestore(p)
  \/ WriteFileRestoreFails(p)

Next ==
  \/ Tick
  \/ \E content \in Contents : ValidateContent(1, content)
  \/ \E name \in FileNames : ReadFileStart(1, name)
  \/ ReadFileAccess(1)
  \/ ReadFileRead(1)
  \/ \E name \in FileNames, content \in Contents : WriteFileStart(1, name, content)
  \/ WriteFileStep(1)

Spec == Init /\ [][Next]_vars

-----------------------------------------------------------------------------
(* SpecRecord: one caller issuing record calls one after the other *)

RecordTargets == { <<"x">> }

RecordContents == { <<"text">>, <<"script">> }

RecordTypes == {"doc", "code", "opinion"}

NextRecord ==
  \/ Tick
  \/ \E type \in RecordTypes, target \in RecordTargets, content \in RecordContents :
        RecordStart(1, type, target, content)
  \/ RecordScan(1)
  \/ WriteFileStep(1)

SpecRecord == Init /\ [][NextRecord]_vars

-----------------------------------------------------------------------------
(* SpecName: generateFileName applied to every directory made of the       *)
(* candidate names                                                         *)

Name(prefix, rest) == prefix \o rest

\* a target of as many letters as a file name may have characters
LongTarget == Rep("a", maxFilenameLength)

Targets == { <<"x">>, <<"A", " ", "b">>, <<"!">>, LongTarget }

CandidateNames ==
  { Name(PrefixOf("doc"), <<"0", "0", "1", ".", "x", ".", "m", "d">>),
    Name(PrefixOf("doc"), <<"0", "0", "3", ".", "x", ".", "m", "d">>),
    Name(PrefixOf("doc"), <<"9", "9", "9", ".", "x", ".", "m", "d">>),
    Name(PrefixOf("doc"), <<"0", "0", "5", "1", ".", "m", "d">>),
    Name(PrefixOf("doc"), <<"0", "0", "7", ".", "x", ".", "m", "d", ".", "b", "a", "k">>),
    Name(PrefixOf("opinion"), <<"0", "0", "2", ".", "x", ".", "m", "d">>),
    Name(PrefixOf("opinion"), <<"0", "0", "6", ".", "m", "d">>),
    Name(PrefixOf("code"), <<"x", ".", "m", "d">>),
    <<"R", "E", "A", "D", "M", "E", ".", "m", "d">> }

InitName ==
  /\ inp \in { [op |-> "generateFileName", type |-> ty, target |-> tg, entries |-> es] :
                 ty \in RecordTypes, tg \in Targets, es \in SUBSET CandidateNames }
  /\ out = [op |-> "none"]
  /\ IdleDisk

CallGenerateFileName ==
  /\ inp.op = "generateFileName"
  /\ out.op = "none"
  /\ out' = [op |-> "generateFileName",
             name |-> generateFileName(inp.type, inp.target, inp.entries)]
  /\ UNCHANGED <<inp, dirExists, fs, lastIndex, now, pc, loc, calls, faults, committed>>

NextName == CallGenerateFileName

SpecName == InitName /\ [][NextName]_vars

-----------------------------------------------------------------------------
(* listFiles, hasValidProjectPlan, getProjectStatus *)

\* getTypeOrder
getTypeOrder(type) ==
  CASE type = "sprint"  -> 0
    [] type = "doc"     -> 1
    [] type = "code"    -> 2
    [] type = "opinion" -> 3
    [] type = "all"     -> 4
    [] OTHER            -> 5

\* the order in which String.prototype.localeCompare ranks the characters of
\* file names: punctuation, then digits, then letters, case set aside
CollationOrder == <<"_", "-", ".">> \o Digits \o Lower

CollationRank(c) ==
  IF \E i \in DOMAIN CollationOrder : CollationOrder[i] = LowerChar(c)
  THEN CHOOSE i \in DOMAIN CollationOrder : CollationOrder[i] = LowerChar(c)
  ELSE 0

RECURSIVE PrimaryCompare(_, _)
PrimaryCompare(a, b) ==
  IF a = <<>> /\ b = <<>> THEN 0
  ELSE IF a = <<>> THEN -1
  ELSE IF b = <<>> THEN 1
  ELSE IF CollationRank(Head(a)) < CollationRank(Head(b)) THEN -1
  ELSE IF CollationRank(Head(a)) > CollationRank(Head(b)) THEN 1
  ELSE PrimaryCompare(Tail(a), Tail(b))

\* strings equal but for case: the one with the lower-case letter at the first
\* difference comes first
CaseCompare(a, b) ==
  IF a = b THEN 0
  ELSE LET i == CHOOSE k \in DOMAIN a :
                   a[k] # b[k] /\ \A j \in 1..(k - 1) : a[j] = b[j]
       IN  IF a[i] \in Range(Lower) THEN -1 ELSE 1

\* a.localeCompare(b)
localeCompare(a, b) ==
  IF PrimaryCompare(a, b) # 0 THEN PrimaryCompare(a, b) ELSE CaseCompare(a, b)

\* lines 105-110: the comparator of the sort, by type and then by name
SortsBefore(a, b) ==
  IF a.type # b.type
  THEN getTypeOrder(a.type) < getTypeOrder(b.type)
  ELSE localeCompare(a.name, b.name) < 0

RECURSIVE SortFiles(_)
SortFiles(infos) ==
  IF infos = {} THEN <<>>
  ELSE LET first == CHOOSE x \in infos : \A y \in infos \ {x} : SortsBefore(x, y)
       IN  <<first>> \o SortFiles(infos \ {first})

\* the type filter is not applied
FileInfos_NoTypeFilter(type, dir) ==
  { [name |-> n, path |-> InDir(n), type |-> categorizeFile(n),
     lineCount |-> dir[n].lines, lastModified |-> dir[n].mtime] :
    n \in { m \in DOMAIN dir : EndsWith(m, Md) /\ dir[m].readable } }

\* a failing fs.stat or fs.readFile ends the loop with nothing listed
FileInfos_StopsAtFailure(type, dir) ==
  IF \E m \in DOMAIN dir : EndsWith(m, Md) /\ ~dir[m].readable
  THEN {}
  ELSE FileInfos_NoTypeFilter(type, dir)

\* lines 78-101: the FileInfo of every '.md' entry of the wanted type that
\* fs.stat and fs.readFile succeed on. dir maps each entry of the directory
\* to [mtime, lines, readable].
FileInfos(type, dir) ==
  { [name |-> n, path |-> InDir(n), type |-> categorizeFile(n),
     lineCount |-> dir[n].lines, lastModified |-> dir[n].mtime] :
    n \in { m \in DOMAIN dir :
              /\ EndsWith(m, Md)
              /\ (type = "all" \/ categorizeFile(m) = type)
              /\ dir[m].readable } }

listFiles(type, dir) == SortFiles(FileInfos(type, dir))

PlanName == <<"P", "L", "A", "N", ".", "m", "d">>

CurrentName == <<"C", "U", "R", "R", "E", "N", "T", ".", "m", "d">>

\* one core file is enough
hasValidProjectPlan_EitherFile(present, dir) ==
  present /\ (PlanName \in DOMAIN dir \/ CurrentName \in DOMAIN dir)

\* fs.access(projectPlanDir), then fileExists of PLAN.md and of CURRENT.md
hasValidProjectPlan(present, dir) ==
  present /\ PlanName \in DOMAIN dir /\ CurrentName \in DOMAIN dir

FileTypes == {"all", "sprint", "doc", "code", "opinion"}

\* getProjectStatus at time t
getProjectStatus(present, dir, t) ==
  LET files == listFiles("all", dir)
  IN  [hasProjectPlan |-> hasValidProjectPlan(present, dir),
       totalFiles     |-> Len(files),
       filesByType    |->
         [ty \in FileTypes |->
            IF ty = "all" THEN Len(files)
            ELSE Cardinality({i \in DOMAIN files : files[i].type = ty})],
       lastUpdated    |->
         IF Len(files) > 0
         THEN Max({files[i].lastModified : i \in DOMAIN files})
         ELSE t]

-----------------------------------------------------------------------------
(* SpecList: listFiles and getProjectStatus applied to every directory of  *)
(* at most MaxEntries of the candidate entries                             *)

ListNames ==
  << <<"M", "0", "1", "_", "S", "0", "2", ".", "f", "o", "o", ".", "m", "d">>,
     <<"D", "O", "C", "R", "E", "F", "_", "0", "0", "7", ".", "b", "a", "r", ".", "m", "d">>,
     <<"C", "O", "D", "E", "R", "E", "F", "_", "b", "a", "z", ".", "m", "d">>,
     <<"O", "P", "I", "N", "I", "O", "N", "S", "_", "0", "0", "2", ".", "q", "u", "x", ".", "m", "d">>,
     <<"R", "E", "A", "D", "M", "E", ".", "m", "d">>,
     <<"P", "L", "A", "N", ".", "m", "d">>,
     <<"C", "U", "R", "R", "E", "N", "T", ".", "m", "d">>,
     <<"D", "O", "C", "R", "E", "F", "_", "0", "0", "1", ".", "a", ".", "m", "d">>,
     <<"C", "O", "D", "E", "R", "E", "F", "_", "x", ".", "m", "d">>,
     <<"n", "o", "t", "e", "s", ".", "t", "x", "t">>,
     <<"r", "e", "a", "d", "m", "e", ".", "m", "d">> >>

\* each entry's modification time, with the clock running up or down the
\* candidate entries, and its number of lines
EntryOf(i, clock, unreadable) ==
  [mtime    |-> IF clock = "up" THEN i + 1 ELSE Len(ListNames) + 2 - i,
   lines    |-> IF i % 2 = 0 THEN 10 ELSE 1,
   readable |-> ListNames[i] \notin unreadable]

IndexOf(n) == CHOOSE i \in DOMAIN ListNames : ListNames[i] = n

Directories ==
  { [n \in names |-> EntryOf(IndexOf(n), clock, unreadable)] :
      names \in { S \in SUBSET Range(ListNames) : Cardinality(S) <= MaxEntries },
      clock \in {"up", "down"},
      unreadable \in { {} } \cup { {n} : n \in Range(ListNames) } }

InitList ==
  /\ inp \in { [op |-> "list", present |-> TRUE, dir |-> d] : d \in Directories }
               \cup { [op |-> "list", present |-> FALSE, dir |-> <<>>] }
  /\ out = [op |-> "none"]
  /\ dirExists = inp.present
  /\ fs = <<>>
  /\ lastIndex = [k \in DOMAIN forbiddenPatterns |-> 0]
  /\ now = 0
  /\ IdleCallers

\* listFiles(type): ensureProjectPlanDir, then the listing
CallListFiles ==
  /\ inp.op = "list"
  /\ out.op = "none"
  /\ \E type \in FileTypes :
        out' = [op |-> "listFiles", type |-> type, files |-> listFiles(type, inp.dir)]
  /\ dirExists' = TRUE
  /\ UNCHANGED <<inp, fs, lastIndex, now, pc, loc, calls, faults, committed>>

\* getProjectStatus: hasValidProjectPlan, then listFiles()
CallGetProjectStatus ==
  /\ inp.op = "list"
  /\ out.op = "none"
  /\ out' = [op |-> "getProjectStatus",
             status |-> getProjectStatus(dirExists, inp.dir, now)]
  /\ dirExists' = TRUE
  /\ UNCHANGED <<inp, fs, lastIndex, now, pc, loc, calls, faults, committed>>

NextList == CallListFiles \/ CallGetProjectStatus

SpecList == InitList /\ [][NextList]_vars

-----------------------------------------------------------------------------
(* InitProjectTool.execute *)

SprintName ==
  <<"M", "0", "1", "_", "S", "0", "1", ".", "i", "n", "i", "t", "i", "a", "l",
    "_", "s", "e", "t", "u", "p", ".", "m", "d">>

\* generateProjectPlanTemplates: the entries of the templates object, in the
\* order Object.entries gives them
generateProjectPlanTemplates ==
  << [name |-> PlanName,    content |-> <<"tplPlan">>],
     [name |-> CurrentName, content |-> <<"tplCurrent">>],
     [name |-> SprintName,  content |-> <<"tplSprint">>] >>

\* the call of writeFile for entry i of the templates
InitWrite(l, i) ==
  [l EXCEPT !.op = "writeFile", !.idx = i,
            !.fileName = generateProjectPlanTemplates[i].name,
            !.content = generateProjectPlanTemplates[i].content,
            !.validatedPath = NoPath, !.backupPath = NoPath,
            !.writeError = "", !.ret = <<>>, !.orig = Absent, !.steps = {}]

\* the tool that the caller's previous request ran, when that request
\* succeeded
LastSucceeded(p) ==
  IF pc[p] = "done" /\ loc[p].err = "" THEN loc[p].tool ELSE ""

\* lines 14-17: up to the await of ensureProjectPlanDir
InitProjectStart(p) ==
  /\ CanStart(p)
  /\ Goto(p, "init_ensure", [NoCall EXCEPT !.op = "init", !.tool = "init",
                                           !.follows = LastSucceeded(p),
                                           !.snapshot = fs])
  /\ calls' = calls + 1
  /\ UNCHANGED <<inp, out, dirExists, fs, lastIndex, now, faults, committed>>

\* lines 17-25: ensureProjectPlanDir, the templates, and the first writeFile
InitProjectEnsure(p) ==
  /\ pc[p] = "init_ensure"
  /\ dirExists' = TRUE
  /\ Goto(p, "wr_ensure", InitWrite(loc[p], 1))
  /\ UNCHANGED <<inp, out, fs, lastIndex, now, calls, faults, committed>>

\* the loop ends after the first file
InitProjectNext_StopsEarly(p) ==
  /\ pc[p] = "init_next"
  /\ pc' = [pc EXCEPT ![p] = "done"]
  /\ UNCHANGED <<inp, out, dirExists, fs, lastIndex, now, loc, calls, faults, committed>>

\* lines 24-27: the next writeFile of the loop
InitProjectNext(p) ==
  /\ pc[p] = "init_next"
  /\ Goto(p, "wr_ensure", InitWrite(loc[p], loc[p].idx + 1))
  /\ UNCHANGED <<inp, out, dirExists, fs, lastIndex, now, calls, faults, committed>>

\* lines 31-56: the response of a finished request
InitProjectResponse(l) ==
  IF l.err = ""
  THEN [isError |-> FALSE, text |-> "Project plan structure initialized successfully!"]
  ELSE [isError |-> TRUE, text |-> "Error initializing project plan"]

-----------------------------------------------------------------------------
(* SpecInit: one caller issuing init_project_plan requests one after the   *)
(* other, with no filesystem failure                                       *)

WriteFileStepOk(p) ==
  \/ WriteFileEnsure(p)
  \/ WriteFileExists(p)
  \/ WriteFileCopy(p)
  \/ WriteFileWrite(p)
  \/ WriteFileUnlink(p)

NextInit ==
  \/ Tick
  \/ InitProjectStart(1)
  \/ InitProjectEnsure(1)
  \/ InitProjectNext(1)
  \/ WriteFileStepOk(1)

SpecInit == Init /\ [][NextInit]_vars

-----------------------------------------------------------------------------
(* SpecRead: one caller issuing readFile calls one after the other on a    *)
(* directory whose document was put there by other means                   *)

\* what the document holds: harmless text, text with a forbidden pattern, a
\* null byte, and text longer than the content limit
DiskContents ==
  { <<"text">>, <<"script">>, <<"text", "eval">>, <<"script", "iframe">>,
    <<"nul">>, <<"big", "text">> }

InitRead ==
  /\ inp = [op |-> "none"]
  /\ out = [op |-> "none"]
  /\ dirExists = TRUE
  /\ \E c \in DiskContents : fs = Put(<<>>, InDir(FileA), c)
  /\ lastIndex = [k \in DOMAIN forbiddenPatterns |-> 0]
  /\ now = 0
  /\ IdleCallers

NextRead ==
  \/ \E name \in FileNames \cup {CurrentName} : ReadFileStart(1, name)
  \/ ReadFileAccess(1)
  \/ ReadFileRead(1)

SpecRead == InitRead /\ [][NextRead]_vars

-----------------------------------------------------------------------------
(* ShowCurrentTool.execute and ShowPlanTool.execute *)

\* readFile(filePath) called by a tool: validateFilePath, then the await of
\* fs.access (FileManager.readFile, lines 151-160)
ReadFileBegin(p, l, filePath) ==
  LET v  == validateFilePath(filePath)
      l2 == [l EXCEPT !.op = "readFile", !.fileName = filePath,
                      !.validatedPath = v.path]
  IN  IF v.ok THEN Goto(p, "rd_access", l2)
              ELSE Finish(p, [l2 EXCEPT !.err = v.err])

ShowTools == {"show_current", "show_plan"}

\* the document a show tool reads
ShownName(tool) == IF tool = "show_current" THEN CurrentName ELSE PlanName

\* lines 15-18: the tool calls readFile('CURRENT.md') or readFile('PLAN.md')
ShowStart(p, tool) ==
  /\ CanStart(p)
  /\ ReadFileBegin(p, [NoCall EXCEPT !.tool = tool], ShownName(tool))
  /\ calls' = calls + 1
  /\ UNCHANGED <<inp, out, dirExists, fs, lastIndex, now, faults, committed>>

\* lines 20-45: the text of the response, the content read or, after any
\* error, the not-found message
ShowResponse(l) ==
  IF l.err = ""
  THEN [isError |-> FALSE, kind |-> "content", text |-> l.ret]
  ELSE [isError |-> TRUE, kind |-> "not found", text |-> <<>>]

-----------------------------------------------------------------------------
(* SpecShow: one caller issuing show_current and show_plan requests one    *)
(* after the other, on a directory that holds neither document or one of   *)
(* them                                                                    *)

InitShow ==
  /\ inp = [op |-> "none"]
  /\ out = [op |-> "none"]
  /\ dirExists = TRUE
  /\ \/ fs = <<>>
     \/ \E n \in {PlanName, CurrentName}, c \in DiskContents \cup {<<"tplCurrent">>} :
          fs = Put(<<>>, InDir(n), c)
  /\ lastIndex = [k \in DOMAIN forbiddenPatterns |-> 0]
  /\ now = 0
  /\ IdleCallers

NextShow ==
  \/ \E tool \in ShowTools : ShowStart(1, tool)
  \/ ReadFileAccess(1)
  \/ ReadFileRead(1)

SpecShow == InitShow /\ [][NextShow]_vars

-----------------------------------------------------------------------------
(* QuerySprintTool.execute *)

\* content.split('\n').length
LineCount(content) == 1 + Cardinality({ i \in DOMAIN content : content[i] = "nl" })

\* the managed directory as listFiles sees it on the disk f, every entry
\* being readable
DiskDir(f) ==
  [n \in DirEntries(f) |->
     [mtime |-> 0, lines |-> LineCount(f[InDir(n)]), readable |-> TRUE]]

SprintIds ==
  { <<"M", "0", "1", "_", "S", "0", "1">>, <<"M", "0", "1", "_", "S", "0", "2">>,
    <<"M", "0", "2", "_", "S", "0", "1">> }

\* lines 16-20: up to the await of listFiles('sprint')
QuerySprintStart(p, sprintId) ==
  /\ CanStart(p)
  /\ Goto(p, "qs_list", [NoCall EXCEPT !.op = "query", !.tool = "query_sprint",
                                       !.target = sprintId])
  /\ calls' = calls + 1
  /\ UNCHANGED <<inp, out, dirExists, fs, lastIndex, now, faults, committed>>

\* lines 20-44: the listing (which creates the directory when it is absent),
\* the first sprint file whose name starts with the id, and readFile of its
\* path
QuerySprintList(p) ==
  /\ pc[p] = "qs_list"
  /\ dirExists' = TRUE
  /\ LET sprintFiles == listFiles("sprint", DiskDir(fs))
         hits == { i \in DOMAIN sprintFiles :
                     StartsWith(sprintFiles[i].name, loc[p].target) }
         l == [loc[p] EXCEPT
                 !.listing = [i \in DOMAIN sprintFiles |-> sprintFiles[i].name]]
     IN  IF hits = {}
         THEN Finish(p, [l EXCEPT !.steps = {"sprint not found"}])
         ELSE ReadFileBegin(p, l, sprintFiles[Min(hits)].path)
  /\ UNCHANGED <<inp, out, fs, lastIndex, now, calls, faults, committed>>

\* lines 26-72: the response of a finished request
QuerySprintResponse(l) ==
  IF "sprint not found" \in l.steps
  THEN [isError |-> FALSE, kind |-> "not found", text |-> <<>>, names |-> l.listing]
  ELSE IF l.err = ""
  THEN [isError |-> FALSE, kind |-> "content", text |-> l.ret, names |-> <<>>]
  ELSE [isError |-> TRUE, kind |-> "error", text |-> <<>>, names |-> <<>>]

-----------------------------------------------------------------------------
(* SpecQuery: one caller issuing query_sprint requests one after the other *)
(* on a directory of sprint and other documents                            *)

\* a sprint document whose name is within the length limit while its
\* absolute path is not
LongSprintName ==
  <<"M", "0", "2", "_", "S", "0", "1", ".">> \o Rep("a", 180) \o Md

QueryNames == { SprintName, ListNames[1], LongSprintName, ListNames[8] }

InitQuery ==
  /\ inp = [op |-> "none"]
  /\ out = [op |-> "none"]
  /\ dirExists = TRUE
  /\ \E names \in SUBSET QueryNames :
        fs = [path \in { InDir(n) : n \in names } |-> <<"text">>]
  /\ lastIndex = [k \in DOMAIN forbiddenPatterns |-> 0]
  /\ now = 0
  /\ IdleCallers

NextQuery ==
  \/ \E id \in SprintIds : QuerySprintStart(1, id)
  \/ QuerySprintList(1)
  \/ ReadFileAccess(1)
  \/ ReadFileRead(1)

SpecQuery == InitQuery /\ [][NextQuery]_vars

-----------------------------------------------------------------------------
(* SpecLayout: one caller issuing init_project_plan and record requests    *)
(* one after the other, with filesystem failures, starting from an empty   *)
(* or absent managed directory                                             *)

\* a target with and one without a character that sanitizeFileName keeps
LayoutTargets == { <<"x">>, <<"!">> }

InitLayout ==
  /\ inp = [op |-> "none"]
  /\ out = [op |-> "none"]
  /\ dirExists \in BOOLEAN
  /\ fs = <<>>
  /\ lastIndex = [k \in DOMAIN forbiddenPatterns |-> 0]
  /\ now = 0
  /\ IdleCallers

NextLayout ==
  \/ Tick
  \/ InitProjectStart(1)
  \/ InitProjectEnsure(1)
  \/ InitProjectNext(1)
  \/ \E type \in RecordTypes, target \in LayoutTargets :
        RecordStart(1, type, target, <<"text">>)
  \/ RecordScan(1)
  \/ WriteFileStep(1)

SpecLayout == InitLayout /\ [][NextLayout]_vars

-----------------------------------------------------------------------------
(* SpecConcurrent: two callers whose readFile and writeFile calls on one   *)
(* document interleave at their awaits, with filesystem failures           *)

\* one content for both callers: what matters is whether the document still
\* holds it or holds what was there before
ConcurrentContents == { <<"text", "text">> }

InitConcurrent ==
  /\ inp = [op |-> "none"]
  /\ out = [op |-> "none"]
  /\ dirExists = TRUE
  /\ fs = Put(<<>>, InDir(FileA), <<"text">>)
  /\ lastIndex = [k \in DOMAIN forbiddenPatterns |-> 0]
  /\ now = 0
  /\ IdleCallers

NextConcurrent ==
  \/ Tick
  \/ \E p \in Callers :
       \/ ReadFileStart(p, FileA)
       \/ ReadFileAccess(p)
       \/ ReadFileRead(p)
       \/ \E content \in ConcurrentContents : WriteFileStart(p, FileA, content)
       \/ WriteFileStep(p)

SpecConcurrent == InitConcurrent /\ [][NextConcurrent]_vars

-----------------------------------------------------------------------------
(* SpecRace: two callers whose record calls interleave at their awaits,    *)
(* with no filesystem failure, starting from an empty managed directory    *)

NumberedTypes == {"doc", "opinion"}

RaceContents == { <<"text">>, <<"text", "text">> }

InitRace ==
  /\ inp = [op |-> "none"]
  /\ out = [op |-> "none"]
  /\ dirExists = TRUE
  /\ fs = <<>>
  /\ lastIndex = [k \in DOMAIN forbiddenPatterns |-> 0]
  /\ now = 0
  /\ IdleCallers

\* the clock is left out: it only names backups, and of two calls that write
\* one new file at most one makes a backup
NextRace ==
  \E p \in Callers :
    \/ \E type \in NumberedTypes, target \in RecordTargets, content \in RaceContents :
         RecordStart(p, type, target, content)
    \/ RecordScan(p)
    \/ WriteFileStepOk(p)

SpecRace == InitRace /\ [][NextRace]_vars

-----------------------------------------------------------------------------
(* SpecSequence: two callers taking turns to issue record calls that do    *)
(* not overlap, a call starting only when no other is in flight, with      *)
(* filesystem failures, on a directory that is empty or holds the 999th    *)
(* document                                                                *)

Doc999 == Name(PrefixOf("doc"), <<"9", "9", "9", ".", "x", ".", "m", "d">>)

SequenceDisks ==
  { <<>>, Put(<<>>, InDir(Doc999), FullContent("doc", <<"x">>, <<"text">>)) }

InitSequence ==
  /\ inp = [op |-> "none"]
  /\ out = [op |-> "none"]
  /\ dirExists = TRUE
  /\ fs \in SequenceDisks
  /\ lastIndex = [k \in DOMAIN forbiddenPatterns |-> 0]
  /\ now = 0
  /\ IdleCallers

SequenceTypes == {"doc", "code"}

\* whose turn the next call is
Turn == (calls % 2) + 1

\* the clock is left out: it only names backups, and calls that do not
\* overlap never have theirs at the same time
NextSequence ==
  \E p \in Callers :
    \/ /\ NoOtherCallInFlight(p)
       /\ p = Turn
       /\ \E type \in SequenceTypes, target \in RecordTargets, content \in RaceContents :
            RecordStart(p, type, target, content)
    \/ RecordScan(p)
    \/ WriteFileStep(p)

SpecSequence == InitSequence /\ [][NextSequence]_vars

-----------------------------------------------------------------------------
(* SpecOperation: validateFileOperation applied to paths and contents that *)
(* pass or fail each of its three checks, by a validator that is fresh or  *)
(* has detected a script tag before                                        *)

OperationPaths ==
  { FileA,
    <<"b", ".", "e", "x", "e">>,
    <<".", ".", "/", "a", ".", "m", "d">>,
    <<"a", "?", ".", "m", "d">>,
    <<"d", "/", "a", ".", "m", "d">> }

OperationContents ==
  { <<"text">>, <<"script">>, <<"text", "eval">>, <<"nul">>, <<"big", "text">>,
    <<"wide">>, <<"wide", "wide">>, <<"wide", "script">> }

\* the lastIndex values of a fresh validator, and of one whose last call
\* detected the script tag of <<"script">>
OperationLastIndexes ==
  { [k \in DOMAIN forbiddenPatterns |-> 0],
    validateFileContent(<<"script">>, [k \in DOMAIN forbiddenPatterns |-> 0]).lastIndex }

InitOperation ==
  /\ inp \in { [op |-> "validateFileOperation", filePath |-> path, content |-> c,
                lastIndex |-> li] :
                 path \in OperationPaths, c \in OperationContents,
                 li \in OperationLastIndexes }
  /\ out = [op |-> "none"]
  /\ dirExists = FALSE
  /\ fs = <<>>
  /\ lastIndex = inp.lastIndex
  /\ now = 0
  /\ IdleCallers

CallValidateFileOperation ==
  /\ inp.op = "validateFileOperation"
  /\ out.op = "none"
  /\ LET v == validateFileOperation(inp.filePath, inp.content, lastIndex)
     IN  /\ out' = [op |-> "validateFileOperation", ok |-> v.ok, err |-> v.err,
                    path |-> v.path]
         /\ lastIndex' = v.lastIndex
  /\ UNCHANGED <<inp, dirExists, fs, now, pc, loc, calls, faults, committed>>

NextOperation == CallValidateFileOperation

SpecOperation == InitOperation /\ [][NextOperation]_vars

-----------------------------------------------------------------------------
(* Claims about validateFileContent, readFile and writeFile, checked under *)
(* Spec                                                                    *)

Done(p, op) == pc[p] = "done" /\ loc[p].op = op

Raised(p) == loc[p].err # ""

\* the text contains a script tag, 'javascript:', an iframe tag, an inline
\* event handler or 'eval('
ContainsForbidden(content) ==
  \E i \in DOMAIN content :
     content[i] \in {"script", "jsuri", "iframe", "onevt", "eval"}

\* C2: a validateContent or writeDocument call whose text contains a
\* forbidden pattern fails, and readDocument returns no such text, whatever
\* calls came before.
C2_ForbiddenContentAlwaysFails ==
  \A p \in Callers :
     /\ (Done(p, "validateFileContent") \/ Done(p, "writeFile"))
          /\ ContainsForbidden(loc[p].content)
        => Raised(p)
     /\ Done(p, "readFile") => ~ContainsForbidden(loc[p].ret)

\* C3: a readDocument(name) that follows a successful writeDocument(name,
\* content), with no write to name in between, succeeds and returns content.
C3_RoundTrip ==
  \A p \in Callers :
     (Done(p, "readFile") /\ loc[p].validatedPath \in DOMAIN committed)
       => (~Raised(p) /\ loc[p].ret = committed[loc[p].validatedPath])

\* a writeFile call that got to an existing document has completed
OverwriteDone(p) == Done(p, "writeFile") /\ loc[p].orig # Absent

Succeeded(p) ==
  /\ ~Raised(p)
  /\ loc[p].ret = loc[p].validatedPath
  /\ ContentOf(loc[p].validatedPath) = Utf8RoundTrip(loc[p].content)

RaisedAndRestored(p) ==
  /\ Raised(p)
  /\ ContentOf(loc[p].validatedPath) = loc[p].orig

C5_AtomicOverwrite ==
  \A p \in Callers :
     (OverwriteDone(p)
        /\ {"copy ok", "write failed", "rename ok"} \subseteq loc[p].steps)
       => (Raised(p) /\ ContentOf(loc[p].validatedPath) = loc[p].orig)

\* such a call has completed, for new content that differs from the original
C5_Witness ==
  \E p \in Callers :
     /\ OverwriteDone(p)
     /\ {"copy ok", "write failed", "rename ok"} \subseteq loc[p].steps
     /\ loc[p].content # loc[p].orig
     /\ Raised(p)

\* C6: when the write of writeDocument fails, the error raised is that write
\* error, also when the restore fails and when there is no backup.
C6_WriteErrorPropagates ==
  \A p \in Callers :
     (Done(p, "writeFile") /\ "write failed" \in loc[p].steps)
       => loc[p].err = "writeFile failed"

\* the write and then the restore have failed
C6_Witness ==
  \E p \in Callers :
     /\ Done(p, "writeFile")
     /\ {"write failed", "rename failed"} \subseteq loc[p].steps

\* caller p's readFile or writeFile call was rejected by the validator
RejectedByValidation(p) ==
  /\ Done(p, "readFile") \/ Done(p, "writeFile")
  /\ loc[p].tool = ""
  /\ Raised(p)
  /\ loc[p].validatedPath = NoPath

\* C25: a readFile or writeFile call that the validator rejects leaves the
\* filesystem as it was when the call started: the managed directory is not
\* created and no file is changed.
C25_ValidationPrecedesIO ==
  \A p \in Callers :
    RejectedByValidation(p) =>
      /\ dirExists = loc[p].dirBefore
      /\ fs = loc[p].filesBefore

-----------------------------------------------------------------------------
(* Claims about concurrent readFile and writeFile calls, checked under     *)
(* SpecConcurrent                                                          *)

\* caller p's readFile call started when no call was in flight and a write
\* of the document had returned, and no write of it has begun since
ReadAfterWrite(p) ==
  /\ Done(p, "readFile")
  /\ loc[p].validatedPath \in DOMAIN loc[p].latest
  /\ loc[p].validatedPath \in DOMAIN committed
  /\ committed[loc[p].validatedPath] = loc[p].latest[loc[p].validatedPath]

\* every other caller's last call was a writeFile call that raised
OthersFailed(p) ==
  \A q \in Callers \ {p} : Done(q, "writeFile") /\ Raised(q)

\* C21: a readFile call that starts after a writeFile call of the same
\* document has returned, with no call in flight at that moment and no later
\* write of the document, returns the content that write was given, also
\* when a writeFile call of the other caller overlapped that write and failed.
C21_ReadersSeeLatestWrite ==
  \A p \in Callers :
    ReadAfterWrite(p) /\ OthersFailed(p) =>
      /\ loc[p].err = ""
      /\ loc[p].ret = committed[loc[p].validatedPath]

-----------------------------------------------------------------------------
(* Claims about validateFileOperation, checked under SpecOperation *)

Operated == out.op = "validateFileOperation"

\* the outcomes of the three checks on the call's arguments, each taken on
\* its own, the content check with the validator's state before the call
PathCheck == validateFilePath(inp.filePath)

ContentCheck == validateFileContent(inp.content, inp.lastIndex)

SizeCheck == validateFileSize(ByteLength(inp.content))

\* C24: validateFileOperation reports the error of the path check when that
\* check fails, else the error of the content check when that one fails,
\* else the error of the size check on the UTF-8 byte length when that one
\* fails, and returns the validated path exactly when all three pass.
C24_ChecksInOrder ==
  Operated =>
    /\ ~PathCheck.ok => ~out.ok /\ out.err = PathCheck.err
    /\ PathCheck.ok /\ ~ContentCheck.ok => ~out.ok /\ out.err = ContentCheck.err
    /\ PathCheck.ok /\ ContentCheck.ok /\ ~SizeCheck.ok =>
         ~out.ok /\ out.err = SizeCheck.err
    /\ out.ok <=> (PathCheck.ok /\ ContentCheck.ok /\ SizeCheck.ok)
    /\ out.ok => out.path = PathCheck.path

\* all three checks would fail and the path's error is the one reported
C24_Witness ==
  /\ Operated
  /\ ~PathCheck.ok /\ ~ContentCheck.ok /\ ~SizeCheck.ok
  /\ out.err = PathCheck.err
  /\ out.err # ContentCheck.err

-----------------------------------------------------------------------------
(* Claims about readFile, checked under SpecRead *)

\* C15: the text a readDocument call returns contains no forbidden pattern
\* and no null byte and is within the content length limit, in every call of
\* a sequence of calls.
C15_ReadReturnsOnlyValidText ==
  \A p \in Callers :
     (Done(p, "readFile") /\ ~Raised(p) /\ Exists(loc[p].validatedPath))
       => /\ loc[p].ret = fs[loc[p].validatedPath]
          /\ ~ContainsForbidden(fs[loc[p].validatedPath])
          /\ "nul" \notin Range(fs[loc[p].validatedPath])
          /\ StrLength(fs[loc[p].validatedPath]) <= maxContentLength

-----------------------------------------------------------------------------
(* Claims about init_project_plan, checked under SpecInit *)

InitDone(p) == pc[p] = "done" /\ loc[p].tool = "init"

BackupSiblings ==
  { path \in DOMAIN fs :
      \E q \in DOMAIN fs \cup {InDir(generateProjectPlanTemplates[i].name) : i \in 1..3} :
         \E t \in 0..MaxNow : path = BackupPathOf(q, t) }

\* C16: an initProject request returns no error, leaves PLAN.md, CURRENT.md
\* and the sample sprint document with their template content and no backup
\* sibling; when it follows another initProject request, the state is the one
\* that request left.
C16_InitIdempotent ==
  \A p \in Callers :
     InitDone(p)
       => /\ ~InitProjectResponse(loc[p]).isError
          /\ \A i \in 1..3 :
                ContentOf(InDir(generateProjectPlanTemplates[i].name))
                  = generateProjectPlanTemplates[i].content
          /\ BackupSiblings = {}
          /\ loc[p].follows = "init" => fs = loc[p].snapshot

\* a second initProject request in a row has overwritten the documents
C16_Witness ==
  \E p \in Callers :
     /\ InitDone(p) /\ loc[p].follows = "init"
     /\ loc[p].idx = 3
     /\ {"copy ok", "write ok", "unlink ok"} \subseteq loc[p].steps

-----------------------------------------------------------------------------
(* Claims about show_current and show_plan, checked under SpecShow *)

ShowDone(p) == pc[p] = "done" /\ loc[p].tool \in ShowTools

\* C17: showCurrent (showPlan) returns the full text of CURRENT.md (PLAN.md)
\* whenever the file exists, and the not-found message exactly when it does
\* not exist.
C17_ShowsWhenExists ==
  \A p \in Callers :
     ShowDone(p)
       => LET path == InDir(ShownName(loc[p].tool))
              resp == ShowResponse(loc[p])
          IN  /\ Exists(path) => (resp.kind = "content" /\ resp.text = fs[path])
              /\ resp.kind = "not found" <=> ~Exists(path)

-----------------------------------------------------------------------------
(* Claims about query_sprint, checked under SpecQuery *)

QueryDone(p) == pc[p] = "done" /\ loc[p].tool = "query_sprint"

\* the sprint documents of the directory
SprintFilesOnDisk == { n \in DirEntries(fs) : MatchesSprint(n) }

\* C18: querySprint(id) returns the full text of a sprint file whose name
\* begins with id whenever there is one, and otherwise a not-found message
\* listing the names of all sprint files.
C18_QueryReturnsSprint ==
  \A p \in Callers :
     QueryDone(p)
       => LET resp == QuerySprintResponse(loc[p])
              hits == { n \in SprintFilesOnDisk : StartsWith(n, loc[p].target) }
          IN  IF hits # {}
              THEN /\ resp.kind = "content"
                   /\ \E n \in hits : resp.text = fs[InDir(n)]
              ELSE /\ resp.kind = "not found"
                   /\ Range(resp.names) = SprintFilesOnDisk

-----------------------------------------------------------------------------
(* Claims about the managed directory, checked under SpecLayout *)

Quiescent == \A p \in Callers : pc[p] \in {"idle", "done"}

MatchesCore(name) == name \in {PlanName, CurrentName}

\* C20: after any sequence of initProject and record requests, every entry
\* of the managed directory is a '.md' file whose name matches one of the
\* five naming patterns, directly in the directory.
C20_LayoutInvariant ==
  Quiescent =>
    \A path \in DOMAIN fs :
       /\ StartsWith(path, projectPlanDir \o <<"/">>)
       /\ LET name == After(path, projectPlanDir \o <<"/">>)
          IN  /\ Len(Split(name)) = 1
              /\ EndsWith(name, Md)
              /\ \/ MatchesSprint(name) \/ MatchesDoc(name) \/ MatchesCode(name)
                 \/ MatchesOpinion(name) \/ MatchesCore(name)

-----------------------------------------------------------------------------
(* Claims about record, checked under SpecRecord *)

RecordDone(p) == pc[p] = "done" /\ loc[p].tool = "record"

\* C7: a record call whose content contains <script>alert(1)</script>
\* returns a validation error and creates no file, whatever calls came
\* before it.
C7_ScriptContentRejected ==
  \A p \in Callers :
     (RecordDone(p) /\ "script" \in Range(loc[p].userContent))
       => (Raised(p) /\ DOMAIN fs = loc[p].before)

-----------------------------------------------------------------------------
(* Claims about concurrent record calls, checked under SpecRace *)

\* callers p and q have both completed a record call of the same numbered
\* category and target without error, and both scanned the directory before
\* either had written: they listed the same entries
Raced(p, q) ==
  /\ p # q
  /\ RecordDone(p) /\ ~Raised(p)
  /\ RecordDone(q) /\ ~Raised(q)
  /\ loc[p].type \in NumberedTypes
  /\ loc[p].type = loc[q].type
  /\ loc[p].target = loc[q].target
  /\ loc[p].scanned = loc[q].scanned

\* C22: when two record calls of the same numbered category and target both
\* scan the directory before either writes and both report success, they
\* generated the same filename, and the directory has gained one file only,
\* which holds the content of one of the two calls.
C22_SequenceNumberRace ==
  \A p, q \in Callers :
    Raced(p, q) =>
      /\ loc[p].fileName = loc[q].fileName
      /\ DirEntries(fs) \ loc[p].scanned = {loc[p].fileName}
      /\ ContentOf(InDir(loc[p].fileName)) \in {loc[p].content, loc[q].content}

\* two raced calls with different contents have both reported success, and
\* the one file they produced holds the content of caller 2, caller 1's
\* being lost
C22_Witness ==
  /\ Raced(1, 2)
  /\ loc[1].content # loc[2].content
  /\ loc[1].ret = loc[2].ret
  /\ Cardinality(DirEntries(fs)) = 1
  /\ ContentOf(loc[1].ret) = loc[2].content

-----------------------------------------------------------------------------
(* Claims about successive record calls, checked under SpecSequence *)

\* caller q's record call is the one that followed caller p's, and both
\* returned without error
Successive(p, q) ==
  /\ p # q
  /\ RecordDone(p) /\ ~Raised(p)
  /\ RecordDone(q) /\ ~Raised(q)
  /\ loc[q].seq = loc[p].seq + 1

\* the code files among the entries of a set of paths
CodeFiles(paths) ==
  ListedNames(DirEntries([path \in paths |-> <<>>]), "code")

LastRecordSucceeded(q) ==
  /\ RecordDone(q) /\ ~Raised(q)
  /\ loc[q].seq = calls

\* C28: a successful record call of category doc or opinion, in a sequence
\* of calls that do not overlap, returns a path that did not exist when the
\* call started, and leaves the directory with exactly one file more.
C28_NumberedRecordCreates ==
  \A q \in Callers :
    (LastRecordSucceeded(q) /\ loc[q].type \in NumberedTypes) =>
      /\ loc[q].ret \notin loc[q].before
      /\ Cardinality(DOMAIN fs) = Cardinality(loc[q].before) + 1

-----------------------------------------------------------------------------
(* Claims about generateFileName, checked under SpecName *)

Generated == out.op = "generateFileName"

ThreeDigits(n) ==
  <<Digits[(n \div 100) + 1], Digits[((n \div 10) % 10) + 1], Digits[(n % 10) + 1]>>

\* the numbers n such that a '.md' entry of the category starts with the
\* category's prefix followed by the three digits of n
NumbersInCategory(entries, type) ==
  { n \in 0..999 :
      \E f \in entries :
         /\ EndsWith(f, Md)
         /\ categorizeFile(f) = type
         /\ StartsWith(f, PrefixOf(type) \o ThreeDigits(n)) }

\* the decimal number a string of digits denotes
RECURSIVE DecimalValue(_)
DecimalValue(s) ==
  IF s = <<>> THEN 0
  ELSE 10 * DecimalValue(SubSeq(s, 1, Len(s) - 1)) + DigitValue(s[Len(s)])

FirstDot(s) == CHOOSE i \in DOMAIN s : s[i] = "." /\ \A j \in 1..(i - 1) : s[j] # "."

SequenceNumberOf(name, prefix) ==
  DecimalValue(SubSeq(After(name, prefix), 1, FirstDot(After(name, prefix)) - 1))

Doc001 == Name(PrefixOf("doc"), <<"0", "0", "1", ".", "x", ".", "m", "d">>)
Doc003 == Name(PrefixOf("doc"), <<"0", "0", "3", ".", "x", ".", "m", "d">>)
Doc004 == Name(PrefixOf("doc"), <<"0", "0", "4", ".", "x", ".", "m", "d">>)

\* C10: for doc and opinion, the generated name carries 1 + the largest
\* three-digit number of the existing names of the category, 1 when there is
\* none; with DOCREF_001.x.md and DOCREF_003.x.md it carries 004.
C10_SequenceNumberIsMaxPlusOne ==
  (Generated /\ inp.type \in {"doc", "opinion"})
    => LET nums == NumbersInCategory(inp.entries, inp.type)
       IN  /\ StartsWith(out.name, PrefixOf(inp.type))
           /\ SequenceNumberOf(out.name, PrefixOf(inp.type))
                = (IF nums = {} THEN 1 ELSE Max(nums) + 1)
           /\ (nums = {1, 3} /\ inp.type = "doc")
                => StartsWith(out.name, PrefixOf("doc") \o <<"0", "0", "4", ".">>)

\* the directory holds DOCREF_001.x.md and DOCREF_003.x.md and the name
\* generated for target x is DOCREF_004.x.md
C10_Witness ==
  /\ Generated
  /\ inp.type = "doc" /\ inp.target = <<"x">>
  /\ inp.entries = {Doc001, Doc003}
  /\ out.name = Doc004

\* the characters between the prefix of a generated name and its first '.'
SequenceDigits(name, prefix) ==
  SubSeq(After(name, prefix), 1, FirstDot(After(name, prefix)) - 1)

\* C11: the sequence number in a newly generated doc or opinion name is
\* exactly three digits and is greater than every number in the names already
\* in the category, also when the largest existing number is 999.
C11_ThreeDigitsStrictlyGreater ==
  (Generated /\ inp.type \in {"doc", "opinion"})
    => LET d == SequenceDigits(out.name, PrefixOf(inp.type))
       IN  /\ Len(d) = 3
           /\ \A i \in DOMAIN d : IsDigit(d[i])
           /\ \A n \in NumbersInCategory(inp.entries, inp.type) :
                 DecimalValue(d) > n

\* C29: the name generated for any category and any non-empty target is
\* accepted by validateFilePath.
C29_GeneratedNameIsValid ==
  Generated => validateFilePath(out.name).ok

\* the naming pattern of a category
MatchesPatternOf(type, name) ==
  CASE type = "doc"     -> MatchesDoc(name)
    [] type = "code"    -> MatchesCode(name)
    [] type = "opinion" -> MatchesOpinion(name)
    [] OTHER            -> FALSE

\* C30: the name generated for a category and a non-empty target matches the
\* naming pattern of the category and is categorized as that category, and
\* for doc and opinion the next scan of the category, made with the name in
\* the directory, finds a number in it.
C30_NamingRoundTrip ==
  Generated =>
    /\ MatchesPatternOf(inp.type, out.name)
    /\ categorizeFile(out.name) = inp.type
    /\ inp.type \in {"doc", "opinion"} =>
         ExistingNumbers(ListedNames(inp.entries \cup {out.name}, inp.type),
                         PrefixOf(inp.type)) # {}

-----------------------------------------------------------------------------
(* Claims about categorizeFile, listFiles and getProjectStatus, checked    *)
(* under SpecList                                                          *)

Listed == out.op = "listFiles"

ListedFiles == { out.files[i] : i \in DOMAIN out.files }

\* the '.md' entries of the input directory that can be read
ReadableMd == { n \in DOMAIN inp.dir : EndsWith(n, Md) /\ inp.dir[n].readable }

\* the category the naming patterns give a name, doc when none matches
PatternCategory(name) ==
  CASE MatchesSprint(name)  -> "sprint"
    [] MatchesDoc(name)     -> "doc"
    [] MatchesCode(name)    -> "code"
    [] MatchesOpinion(name) -> "opinion"
    [] OTHER                -> "doc"

\* C12: every listed name has the category of the pattern it matches, doc
\* when it matches none; M01_S02.foo.md is sprint, DOCREF_007.bar.md is doc,
\* CODEREF_baz.md is code, OPINIONS_002.qux.md is opinion, README.md is doc.
C12_CategoryFromName ==
  Listed =>
    \A f \in ListedFiles :
       /\ f.type = PatternCategory(f.name)
       /\ f.name = ListNames[1] => f.type = "sprint"
       /\ f.name = ListNames[2] => f.type = "doc"
       /\ f.name = ListNames[3] => f.type = "code"
       /\ f.name = ListNames[4] => f.type = "opinion"
       /\ f.name = ListNames[5] => f.type = "doc"

\* OPINIONS_002.qux.md, CODEREF_baz.md and README.md have been listed together
C12_Witness ==
  /\ Listed /\ out.type = "all"
  /\ { f.name : f \in ListedFiles } = { ListNames[3], ListNames[4], ListNames[5] }
  /\ \E f \in ListedFiles : f.name = ListNames[4] /\ f.type = "opinion"

\* C13: a listed PLAN.md or CURRENT.md has the category core.
C13_CoreCategory ==
  Listed =>
    \A f \in ListedFiles :
       f.name \in {PlanName, CurrentName} => f.type = "core"

\* C14: listFiles(c) returns exactly the readable '.md' entries of category
\* c, each once, and listFiles(all) every readable '.md' entry; a directory
\* of DOCREF_001.a.md and CODEREF_x.md gives one entry, of category doc, for
\* doc.
C14_ListExactlyCategory ==
  Listed =>
    LET want == { n \in ReadableMd :
                    out.type = "all" \/ PatternCategory(n) = out.type }
    IN  /\ { f.name : f \in ListedFiles } = want
        /\ Len(out.files) = Cardinality(want)
        /\ out.type # "all" => \A f \in ListedFiles : f.type = out.type
        /\ (ReadableMd = { ListNames[8], ListNames[9] } /\ out.type = "doc")
             => /\ Len(out.files) = 1
                /\ out.files[1].name = ListNames[8]
                /\ out.files[1].type = "doc"

\* list('doc') on a directory of DOCREF_001.a.md and CODEREF_x.md has
\* returned one entry
C14_Witness ==
  /\ Listed /\ out.type = "doc"
  /\ DOMAIN inp.dir = { ListNames[8], ListNames[9] }
  /\ ReadableMd = DOMAIN inp.dir
  /\ Len(out.files) = 1

StatusGiven == out.op = "getProjectStatus"

FailedMd == { n \in DOMAIN inp.dir : EndsWith(n, Md) /\ ~inp.dir[n].readable }

\* C27: listFiles returns a list whatever entries fail to be read: an entry
\* of the directory is in the list exactly when it is a '.md' entry of the
\* wanted category on which fs.stat and fs.readFile succeed, so the entries
\* that fail are left out and all others are kept.
C27_BestEffortListing ==
  Listed =>
    \A n \in DOMAIN inp.dir :
      (\E i \in DOMAIN out.files : out.files[i].name = n)
        <=> /\ EndsWith(n, Md)
            /\ out.type = "all" \/ categorizeFile(n) = out.type
            /\ n \notin FailedMd

\* a listing of a directory with an entry of the wanted category that could
\* not be read has returned the other entries
C27_Witness ==
  /\ Listed
  /\ \E n \in FailedMd : out.type = "all" \/ categorizeFile(n) = out.type
  /\ Len(out.files) = 2
  /\ \A i \in DOMAIN out.files : out.files[i].name \notin FailedMd

\* the characters of file names in the order of their UTF-16 code units
CodeUnitOrder == <<"-", ".">> \o Digits \o Upper \o <<"_">> \o Lower

CodeUnitRank(c) == CHOOSE i \in DOMAIN CodeUnitOrder : CodeUnitOrder[i] = c

\* a comes before b in ordinal (code-unit) order
RECURSIVE OrdinalBefore(_, _)
OrdinalBefore(a, b) ==
  IF b = <<>> THEN FALSE
  ELSE IF a = <<>> THEN TRUE
  ELSE IF Head(a) # Head(b) THEN CodeUnitRank(Head(a)) < CodeUnitRank(Head(b))
  ELSE OrdinalBefore(Tail(a), Tail(b))

\* C26: along the list listFiles returns the category ranks (sprint 0, doc 1,
\* code 2, opinion 3) never decrease, and within one category the names are
\* in ascending ordinal (code-unit) order, upper case before lower case.
C26_ListSorted ==
  Listed =>
    \A i, j \in DOMAIN out.files :
      i < j =>
        /\ getTypeOrder(out.files[i].type) <= getTypeOrder(out.files[j].type)
        /\ out.files[i].type = out.files[j].type =>
             OrdinalBefore(out.files[i].name, out.files[j].name)

-----------------------------------------------------------------------------
(* Claims about validateFilePath, checked under SpecPath *)

Validated == out.op = "validateFilePath"

\* p is the managed root or a descendant of it (component-wise, so that
\* /w/project_plan_x is not inside /w/project_plan)
InsideRoot(p) == p = projectPlanDir \/ StartsWith(p, projectPlanDir \o <<"/">>)

StrictlyInsideRoot(p) ==
  StartsWith(p, projectPlanDir \o <<"/">>) /\ Len(p) > Len(projectPlanDir) + 1

\* C1: whenever validatePath returns a path, that path is the managed root
\* or a descendant of it.
C1_Containment == (Validated /\ out.ok) => InsideRoot(out.path)

C9_SucceedsInsideRoot ==
  (Validated /\ StrictlyInsideRoot(Resolve(projectPlanDir, inp.filePath)))
    => (out.ok /\ out.path = Resolve(projectPlanDir, inp.filePath))

\* C9 as amended: validatePath succeeds, returning the resolved absolute path,
\* for every input of at most 200 characters that resolves strictly inside the
\* managed root, whose normalized form contains neither '..' nor '~', and
\* whose last component consists of [a-zA-Z0-9._-] and ends (case-
\* insensitively) in .md, .json or .txt.
C9_SucceedsOnPolicyConformingPath ==
  LET r == Resolve(projectPlanDir, inp.filePath)
      n == Normalize(inp.filePath)
      f == Basename(r)
  IN  ( /\ Validated
        /\ Len(inp.filePath) <= 200
        /\ StrictlyInsideRoot(r)
        /\ ~Includes(n, DotDot) /\ ~Includes(n, <<"~">>)
        /\ \A i \in DOMAIN f : f[i] \in SafeFilenameChars
        /\ \E e \in allowedFileExtensions : EndsWith(ToLowerCase(f), e) )
      => (out.ok /\ out.path = r)

\* a path of exactly 200 characters below the root has been accepted
C9_Witness ==
  /\ Validated /\ out.ok
  /\ Len(inp.filePath) = 200
  /\ StrictlyInsideRoot(out.path)

====
